---- MODULE Spec2Model ----
(***************************************************************************)
(* py2store: the capability interface hierarchy of py2store/base.py        *)
(* (AbstractKeys, AbstractObjSource, AbstractObjStore) over a minimal      *)
(* insertion-ordered backend, and the key-shape codecs of                  *)
(* py2store/key_mappers/tuples.py.                                         *)
(***************************************************************************)
EXTENDS Integers, Sequences, FiniteSets

\* ------------------------------------------------------------------ bounds
\* Number of distinct keys a store may hold.
NumKeys == 2
\* Longest tuple, field list and format template handed to a codec.
MaxLen == 2
\* Longest list of words handed to dsv_of_list, and longest word or delimiter.
MaxWords == 2
MaxStrLen == 2

Keys == 1..NumKeys
Vals == {"x", "y"}
\* Two store instances: the operand pairs of __eq__.
Ids == {"s1", "s2"}

VARIABLES
    stores,     \* stores[id]: the backend's data, a sequence of <<key, value>> in iteration order
    last,       \* the last call made on a store: [op, self, k, exc, ret]
    pc,         \* the chain of codec calls made so far on the inputs
    raised,     \* the error the last codec call raised, "none" if it returned
    in_fields,  \* codec input: the ordered field list
    in_t,       \* codec input: a tuple
    in_d,       \* codec input: a mapping
    in_format,  \* codec input: a format template, as its parsed sequence of parts
    out_t,      \* the tuple the last tuple-producing call returned
    out_d,      \* the mapping the last mapping-producing call returned
    out_s,      \* the string the last str_of_* call returned
    words,      \* dsv input: the list of component strings
    separator,  \* dsv input: the delimiter
    dsv_line,   \* dsv_of_list(words, separator)
    dsv_words   \* list_of_dsv(dsv_line, separator)

store_vars == <<stores, last>>
codec_vars == <<pc, raised, in_fields, in_t, in_d, in_format, out_t, out_d, out_s>>
dsv_vars == <<words, separator, dsv_line, dsv_words>>
vars == <<stores, last, pc, raised, in_fields, in_t, in_d, in_format, out_t, out_d, out_s,
          words, separator, dsv_line, dsv_words>>

\* ------------------------------------------------- backend primitives
\* The iteration primitive: a fresh traversal of the keys the backend holds now.
__iter__(self) == [i \in 1..Len(stores[self]) |-> stores[self][i][1]]

\* The lookup primitive: the value under k, or the not-found error.
__getitem__(self, k) ==
    IF \E i \in 1..Len(stores[self]) : stores[self][i][1] = k
    THEN [exc |-> "none",
          val |-> stores[self][CHOOSE i \in 1..Len(stores[self]) : stores[self][i][1] = k][2]]
    ELSE [exc |-> "KeyError", val |-> "x"]

\* ------------------------------------------------- AbstractKeys
RECURSIVE len_loop(_, _)
len_loop(it, count) ==
    IF it = <<>> THEN count ELSE len_loop(Tail(it), count + 1)

__len__(self) == len_loop(__iter__(self), 0)

RECURSIVE contains_loop(_, _)
contains_loop(it, k) ==
    IF it = <<>> THEN FALSE
    ELSE IF Head(it) = k THEN TRUE
    ELSE contains_loop(Tail(it), k)

\* mutant: the loop returns on its first element, whatever it is
__contains___first_only(self, k) ==
    IF __iter__(self) = <<>> THEN FALSE ELSE Head(__iter__(self)) = k

__contains__(self, k) == contains_loop(__iter__(self), k)

\* ------------------------------------------------- AbstractObjSource (Mapping mixins)
RECURSIVE items_loop(_, _)
items_loop(self, it) ==
    IF it = <<>> THEN <<>>
    ELSE <<<<Head(it), __getitem__(self, Head(it)).val>>>> \o items_loop(self, Tail(it))

RECURSIVE sorted_keys(_)
sorted_keys(S) ==
    IF S = {} THEN <<>>
    ELSE LET m == CHOOSE x \in S : \A y \in S : x <= y
         IN  <<m>> \o sorted_keys(S \ {m})

\* mutant: items are produced in sorted key order, an ordering of the view's own
items_sorted(self) ==
    items_loop(self, sorted_keys({__iter__(self)[i] : i \in 1..Len(__iter__(self))}))

items(self) == items_loop(self, __iter__(self))

RECURSIVE values_loop(_, _)
values_loop(self, it) ==
    IF it = <<>> THEN <<>>
    ELSE <<__getitem__(self, Head(it)).val>> \o values_loop(self, Tail(it))

values(self) == values_loop(self, __iter__(self))

\* dict(pairs): the mapping built from a sequence of pairs, a later pair overwriting
dict(pairs) ==
    [k \in {pairs[i][1] : i \in 1..Len(pairs)} |->
        pairs[CHOOSE i \in 1..Len(pairs) :
                 /\ pairs[i][1] = k
                 /\ \A j \in 1..Len(pairs) : pairs[j][1] = k => j <= i][2]]

\* mutant: the two item sequences are compared as sequences, order included
__eq___ordered(self, other) == items(self) = items(other)

__eq__(self, other) == dict(items(self)) = dict(items(other))

\* ------------------------------------------------- actions on a store
Call(op, self, k, exc, ret) ==
    /\ last' = [op |-> op, self |-> self, k |-> k, exc |-> exc, ret |-> ret]
    /\ UNCHANGED <<codec_vars, dsv_vars>>

\* insert or overwrite: an existing key keeps its place, a new key goes last
__setitem__(self, k, v) ==
    /\ stores' = [stores EXCEPT ![self] =
            IF \E i \in 1..Len(@) : @[i][1] = k
            THEN [i \in 1..Len(@) |-> IF @[i][1] = k THEN <<k, v>> ELSE @[i]]
            ELSE Append(@, <<k, v>>)]
    /\ Call("__setitem__", self, k, "none", <<>>)

\* delete: not-found error on an absent key, data untouched
__delitem__(self, k) ==
    IF \E i \in 1..Len(stores[self]) : stores[self][i][1] = k
    THEN /\ stores' = [stores EXCEPT ![self] = SelectSeq(@, LAMBDA p : p[1] # k)]
         /\ Call("__delitem__", self, k, "none", <<>>)
    ELSE /\ UNCHANGED stores
         /\ Call("__delitem__", self, k, "KeyError", <<>>)

\* mutant: the clear MutableMapping would supply (popitem until empty)
clear_inherited(self) ==
    /\ stores' = [stores EXCEPT ![self] = <<>>]
    /\ Call("clear", self, 0, "none", <<>>)

clear(self) ==
    /\ UNCHANGED stores
    /\ Call("clear", self, 0, "NotImplementedError", <<>>)

DoLen(self) ==
    /\ UNCHANGED stores
    /\ Call("__len__", self, 0, "none", __len__(self))

DoContains(self, k) ==
    /\ UNCHANGED stores
    /\ Call("__contains__", self, k, "none", __contains__(self, k))

DoItems(self) ==
    /\ UNCHANGED stores
    /\ Call("items", self, 0, "none", items(self))

DoValues(self) ==
    /\ UNCHANGED stores
    /\ Call("values", self, 0, "none", values(self))

\* self == other, other being the other instance
DoEq(self) ==
    /\ UNCHANGED stores
    /\ Call("__eq__", self, 0, "none",
            __eq__(self, CHOOSE o \in Ids : o # self))

CodecIdle ==
    /\ pc = "idle" /\ raised = "none"
    /\ in_fields = <<>> /\ in_t = <<>> /\ in_d = <<>> /\ in_format = <<>>
    /\ out_t = <<>> /\ out_d = <<>> /\ out_s = <<>>

DsvIdle ==
    /\ words = <<>> /\ separator = <<>> /\ dsv_line = <<>> /\ dsv_words = <<>>

StoreIdle ==
    /\ stores = [id \in Ids |-> <<>>]
    /\ last = [op |-> "init", self |-> "s1", k |-> 0, exc |-> "none", ret |-> <<>>]

\* Two freshly constructed, empty stores.
Init ==
    /\ StoreIdle
    /\ CodecIdle
    /\ DsvIdle

Next ==
    \E self \in Ids :
        \/ \E k \in Keys, v \in Vals : __setitem__(self, k, v)
        \/ \E k \in Keys : __delitem__(self, k)
        \/ clear(self)
        \/ DoLen(self)
        \/ \E k \in Keys : DoContains(self, k)
        \/ DoItems(self)
        \/ DoValues(self)
        \/ DoEq(self)

Spec == Init /\ [][Next]_vars

\* ------------------------------------------------- claims on the stores
\* The keys the backend of a store holds, and agreement of two stores.
KeySet(id) == {stores[id][i][1] : i \in 1..Len(stores[id])}

Other(id) == CHOOSE o \in Ids : o # id

SameKeysAndValues(a, b) ==
    /\ KeySet(a) = KeySet(b)
    /\ \A k \in KeySet(a) : __getitem__(a, k).val = __getitem__(b, k).val

\* C1: in every reachable state of a store, the empty one included, a call of
\* clear raises the unsupported-operation error (NotImplementedError) and leaves
\* the store's keys and values as they were.
C1_ClearFailsAndKeepsData ==
    [][last'.op = "clear" =>
          /\ last'.exc = "NotImplementedError"
          /\ stores' = stores]_vars

\* C1 witness: clear has just failed on a store that holds every key.
C1_Witness ==
    /\ last.op = "clear"
    /\ last.exc = "NotImplementedError"
    /\ Len(stores[last.self]) = NumKeys

\* C2: after any sequence of backend mutations, the derived __contains__(k) is
\* true exactly when k is among the keys a full iteration yields, and the derived
\* __len__() is the number of those keys; each call answers for the current state.
C2_DerivedMembershipAndCount ==
    /\ last.op = "__contains__" => last.ret = (last.k \in KeySet(last.self))
    /\ last.op = "__len__" => last.ret = Cardinality(KeySet(last.self))

\* C2 witness: membership found a key that iteration does not yield first.
C2_Witness ==
    /\ last.op = "__contains__"
    /\ last.ret = TRUE
    /\ Len(stores[last.self]) >= 2
    /\ stores[last.self][1][1] # last.k

\* C9: self == other holds exactly when the two stores expose the same key set
\* and every key looks up to the same value in both.
C9_StructuralEquality ==
    last.op = "__eq__" =>
        (last.ret <=> SameKeysAndValues(last.self, Other(last.self)))

\* C9 witness: two stores filled in different orders compare equal.
C9_Witness ==
    /\ last.op = "__eq__"
    /\ last.ret = TRUE
    /\ Len(stores["s1"]) >= 2
    /\ stores["s1"] # stores["s2"]

\* C10: items() yields the pairs <<k, lookup(k)>> and values() yields lookup(k),
\* for exactly the keys iteration yields now and in iteration's order.
C10_ItemsValuesFollowIteration ==
    LET it == __iter__(last.self) IN
    /\ last.op = "items" =>
          /\ Len(last.ret) = Len(it)
          /\ \A i \in 1..Len(it) :
                last.ret[i] = <<it[i], __getitem__(last.self, it[i]).val>>
    /\ last.op = "values" =>
          /\ Len(last.ret) = Len(it)
          /\ \A i \in 1..Len(it) : last.ret[i] = __getitem__(last.self, it[i]).val

\* C10 witness: items() was taken of a store whose iteration order is not the
\* keys' sorted order.
C10_Witness ==
    /\ last.op = "items"
    /\ Len(last.ret) >= 2
    /\ last.ret[1][1] > last.ret[2][1]

\* ------------------------------------------------- key_mappers/tuples.py
FieldNames == {"a", "b", "c"}
Values == {1, 2}

SeqsUpTo(S, n) == UNION {[1..m -> S] : m \in 0..n}

\* The mappings from some of the field names to values.
Dicts == UNION {[D -> Values] : D \in SUBSET FieldNames}

\* The outcome of a call: the value returned, or the error raised.
Returned(v) == [exc |-> "none", val |-> v]
Raised(e) == [exc |-> e, val |-> <<>>]

\* mutant: the arity assertion is written the wrong way round
tuple_of_dict_inverted_check(d, fields) ==
    IF Len(fields) = Cardinality(DOMAIN d)
    THEN Raised("KeyValidationError")
    ELSE IF \E i \in 1..Len(fields) : fields[i] \notin DOMAIN d
    THEN Raised("KeyError")
    ELSE Returned([i \in 1..Len(fields) |-> d[fields[i]]])

\* __assert_condition(len(fields) == len(d)), then tuple(d[f] for f in fields):
\* d[f] raises KeyError on a field d does not hold.
tuple_of_dict(d, fields) ==
    IF Len(fields) # Cardinality(DOMAIN d)
    THEN Raised("KeyValidationError")
    ELSE IF \E i \in 1..Len(fields) : fields[i] \notin DOMAIN d
    THEN Raised("KeyError")
    ELSE Returned([i \in 1..Len(fields) |-> d[fields[i]]])

\* The last position at which field f stands in fields.
LastIndex(fields, f) ==
    CHOOSE i \in 1..Len(fields) :
        /\ fields[i] = f
        /\ \A j \in 1..Len(fields) : fields[j] = f => j <= i

\* mutant: the fields are paired with the tuple read from its end
dict_of_tuple_reversed(t, fields) ==
    IF Len(fields) # Len(t)
    THEN Raised("KeyValidationError")
    ELSE Returned([f \in {fields[i] : i \in 1..Len(fields)} |->
                      t[Len(t) + 1 - LastIndex(fields, f)]])

\* __assert_condition(len(fields) == len(t)), then {f: x for f, x in zip(fields, t)}:
\* a field named twice keeps the element paired with it last.
dict_of_tuple(t, fields) ==
    IF Len(fields) # Len(t)
    THEN Raised("KeyValidationError")
    ELSE Returned([f \in {fields[i] : i \in 1..Len(fields)} |->
                      t[LastIndex(fields, f)]])

Apply_tuple_of_dict ==
    /\ raised = "none"
    /\ pc \in {"start_d", "dict_of_tuple"}
    /\ LET r == tuple_of_dict(IF pc = "start_d" THEN in_d ELSE out_d, in_fields)
       IN  /\ out_t' = r.val
           /\ raised' = r.exc
    /\ pc' = IF pc = "start_d" THEN "tuple_of_dict" ELSE "tuple_of_dict(dict_of_tuple)"
    /\ UNCHANGED <<in_fields, in_t, in_d, in_format, out_d, out_s, store_vars, dsv_vars>>

Apply_dict_of_tuple ==
    /\ raised = "none"
    /\ pc \in {"start_t", "tuple_of_dict"}
    /\ LET r == dict_of_tuple(IF pc = "start_t" THEN in_t ELSE out_t, in_fields)
       IN  /\ out_d' = r.val
           /\ raised' = r.exc
    /\ pc' = IF pc = "start_t" THEN "dict_of_tuple" ELSE "dict_of_tuple(tuple_of_dict)"
    /\ UNCHANGED <<in_fields, in_t, in_d, in_format, out_t, out_s, store_vars, dsv_vars>>

\* The inputs of the tuple <-> mapping codecs: a field list with a tuple or a mapping.
TuplesInit ==
    /\ StoreIdle
    /\ DsvIdle
    /\ in_fields \in SeqsUpTo(FieldNames, MaxLen)
    /\ pc \in {"start_t", "start_d"}
    /\ in_t \in IF pc = "start_t" THEN SeqsUpTo(Values, MaxLen) ELSE {<<>>}
    /\ in_d \in IF pc = "start_d" THEN Dicts ELSE {<<>>}
    /\ raised = "none" /\ in_format = <<>>
    /\ out_t = <<>> /\ out_d = <<>> /\ out_s = <<>>

TuplesNext ==
    \/ Apply_tuple_of_dict
    \/ Apply_dict_of_tuple

TuplesSpec == TuplesInit /\ [][TuplesNext]_vars

\* ------------------------------------------------- claims on tuple <-> mapping
Distinct(fields) ==
    \A i, j \in 1..Len(fields) : fields[i] = fields[j] => i = j

IsPermutationOfKeys(fields, d) ==
    /\ Distinct(fields)
    /\ {fields[i] : i \in 1..Len(fields)} = DOMAIN d

\* C4 as stated: for any tuple t and any field list of t's length,
\* tuple_of_dict(dict_of_tuple(t, fields), fields) succeeds and equals t.
C4_RoundTripAnyFields ==
    Len(in_fields) = Len(in_t) =>
        /\ pc = "dict_of_tuple" => raised = "none"
        /\ pc = "tuple_of_dict(dict_of_tuple)" => (raised = "none" /\ out_t = in_t)

\* C4: for any tuple t and any field list of t's length that names no field
\* twice, tuple_of_dict(dict_of_tuple(t, fields), fields) succeeds and equals t.
C4_RoundTripDistinctFields ==
    (Len(in_fields) = Len(in_t) /\ Distinct(in_fields)) =>
        /\ pc = "dict_of_tuple" => raised = "none"
        /\ pc = "tuple_of_dict(dict_of_tuple)" => (raised = "none" /\ out_t = in_t)

\* C4 witness: a tuple of two different elements has come back from the round trip.
C4_Witness ==
    /\ pc = "tuple_of_dict(dict_of_tuple)"
    /\ raised = "none"
    /\ Len(in_t) >= 2
    /\ in_t[1] # in_t[2]
    /\ Distinct(in_fields)
    /\ out_t = in_t

\* C5: for any mapping d and any field list that is a permutation of d's keys,
\* dict_of_tuple(tuple_of_dict(d, fields), fields) succeeds and equals d.
C5_RoundTripMapping ==
    IsPermutationOfKeys(in_fields, in_d) =>
        /\ pc = "tuple_of_dict" => raised = "none"
        /\ pc = "dict_of_tuple(tuple_of_dict)" => (raised = "none" /\ out_d = in_d)

\* C5 witness: a mapping of two fields with different values has come back from
\* the round trip.
C5_Witness ==
    /\ pc = "dict_of_tuple(tuple_of_dict)"
    /\ raised = "none"
    /\ Len(in_fields) >= 2
    /\ in_d[in_fields[1]] # in_d[in_fields[2]]
    /\ out_d = in_d

\* C6: every failure of tuple_of_dict and dict_of_tuple is a key validation
\* error: a field list of another length than d, or of d's length naming a key
\* absent from d, makes tuple_of_dict raise KeyValidationError, and no call of
\* either codec raises any other kind of error.
C6_OnlyKeyValidationErrors ==
    /\ pc \in {"tuple_of_dict", "dict_of_tuple",
               "tuple_of_dict(dict_of_tuple)", "dict_of_tuple(tuple_of_dict)"}
          => raised \in {"none", "KeyValidationError"}
    /\ (/\ pc = "tuple_of_dict"
        /\ \/ Len(in_fields) # Cardinality(DOMAIN in_d)
           \/ \E i \in 1..Len(in_fields) : in_fields[i] \notin DOMAIN in_d)
          => raised = "KeyValidationError"

\* ------------------------------------------------- str_of_tuple, str_of_dict
\* A format template as the sequence of parts str.format reads it as: a literal
\* character, a positional placeholder {} or a named placeholder {name}.
Parts ==
    {[kind |-> "lit", name |-> "-"], [kind |-> "auto", name |-> ""]}
        \cup {[kind |-> "named", name |-> f] : f \in FieldNames}

\* str(v) of a value, as format() writes it.
str_(v) == IF v = 1 THEN "1" ELSE "2"

\* str_format.format(*args, **kwargs): parts are filled left to right; {} takes
\* the next positional argument (IndexError when there is none), {name} takes
\* kwargs[name] (KeyError when absent); arguments no part asks for are ignored.
RECURSIVE format(_, _, _, _)
format(str_format, args, kwargs, auto_idx) ==
    IF str_format = <<>> THEN Returned(<<>>)
    ELSE LET p == Head(str_format) IN
         IF p.kind = "auto" /\ auto_idx >= Len(args) THEN Raised("IndexError")
         ELSE IF p.kind = "named" /\ p.name \notin DOMAIN kwargs THEN Raised("KeyError")
         ELSE LET piece == IF p.kind = "lit" THEN p.name
                           ELSE IF p.kind = "auto" THEN str_(args[auto_idx + 1])
                           ELSE str_(kwargs[p.name])
                  rest == format(Tail(str_format), args, kwargs,
                                 IF p.kind = "auto" THEN auto_idx + 1 ELSE auto_idx)
              IN  IF rest.exc # "none" THEN rest
                  ELSE Returned(<<piece>> \o rest.val)

\* mutant: the formatting error reaches the caller as it is
str_of_tuple_unwrapped(t, str_format) == format(str_format, t, <<>>, 0)

\* try: return str_format.format(*t); except Exception as e: raise KeyValidationError(e)
str_of_tuple(t, str_format) ==
    LET r == format(str_format, t, <<>>, 0)
    IN  IF r.exc # "none" THEN Raised("KeyValidationError") ELSE r

\* mutant: the formatting error reaches the caller as it is
str_of_dict_unwrapped(d, str_format) == format(str_format, <<>>, d, 0)

\* try: return str_format.format(**d); except Exception as e: raise KeyValidationError(e)
str_of_dict(d, str_format) ==
    LET r == format(str_format, <<>>, d, 0)
    IN  IF r.exc # "none" THEN Raised("KeyValidationError") ELSE r

Apply_str_of_tuple ==
    /\ pc = "start_t"
    /\ LET r == str_of_tuple(in_t, in_format)
       IN  /\ out_s' = r.val
           /\ raised' = r.exc
    /\ pc' = "str_of_tuple"
    /\ UNCHANGED <<in_fields, in_t, in_d, in_format, out_t, out_d, store_vars, dsv_vars>>

Apply_str_of_dict ==
    /\ pc = "start_d"
    /\ LET r == str_of_dict(in_d, in_format)
       IN  /\ out_s' = r.val
           /\ raised' = r.exc
    /\ pc' = "str_of_dict"
    /\ UNCHANGED <<in_fields, in_t, in_d, in_format, out_t, out_d, store_vars, dsv_vars>>

\* The inputs of the formatting codecs: a template with a tuple or a mapping.
FormatInit ==
    /\ StoreIdle
    /\ DsvIdle
    /\ in_format \in SeqsUpTo(Parts, MaxLen)
    /\ pc \in {"start_t", "start_d"}
    /\ in_t \in IF pc = "start_t" THEN SeqsUpTo(Values, MaxLen) ELSE {<<>>}
    /\ in_d \in IF pc = "start_d" THEN Dicts ELSE {<<>>}
    /\ raised = "none" /\ in_fields = <<>>
    /\ out_t = <<>> /\ out_d = <<>> /\ out_s = <<>>

FormatNext ==
    \/ Apply_str_of_tuple
    \/ Apply_str_of_dict

FormatSpec == FormatInit /\ [][FormatNext]_vars

\* ------------------------------------------------- claims on the formatting codecs
\* The positional placeholders of a template, and those among its first i parts.
NAuto(str_format, i) ==
    Cardinality({j \in 1..i : str_format[j].kind = "auto"})

NamedSet(str_format) ==
    {str_format[j].name : j \in {i \in 1..Len(str_format) : str_format[i].kind = "named"}}

OnlyKinds(str_format, kinds) ==
    \A j \in 1..Len(str_format) : str_format[j].kind \in kinds

\* C7 as stated: on a template of literals and at least one positional
\* placeholder, str_of_tuple fails with a key validation error whenever t has
\* fewer or more elements than the template has placeholders, and returns a
\* string only when the two counts are equal.
C7_FailsOnAnyArityMismatch ==
    (/\ pc = "str_of_tuple"
     /\ OnlyKinds(in_format, {"lit", "auto"})
     /\ NAuto(in_format, Len(in_format)) >= 1) =>
        /\ Len(in_t) # NAuto(in_format, Len(in_format)) => raised = "KeyValidationError"
        /\ raised = "none" => Len(in_t) = NAuto(in_format, Len(in_format))

\* C7: str_of_tuple fails with a key validation error whenever t has fewer
\* elements than the template has positional placeholders; on a template of
\* literals and positional placeholders with at most as many placeholders as t
\* has elements it returns the string filled with t's leading elements, the
\* elements beyond the placeholders being ignored.
C7_FailsOnTooFewElements ==
    pc = "str_of_tuple" =>
        /\ Len(in_t) < NAuto(in_format, Len(in_format)) => raised = "KeyValidationError"
        /\ (/\ OnlyKinds(in_format, {"lit", "auto"})
            /\ Len(in_t) >= NAuto(in_format, Len(in_format)))
              => /\ raised = "none"
                 /\ Len(out_s) = Len(in_format)
                 /\ \A i \in 1..Len(in_format) :
                       out_s[i] = IF in_format[i].kind = "lit"
                                  THEN in_format[i].name
                                  ELSE str_(in_t[NAuto(in_format, i)])

\* C7 witness: a non-empty tuple was too short for its template and the call
\* raised the key validation error.
C7_Witness ==
    /\ pc = "str_of_tuple"
    /\ raised = "KeyValidationError"
    /\ Len(in_t) >= 1
    /\ OnlyKinds(in_format, {"lit", "auto"})
    /\ Len(in_t) < NAuto(in_format, Len(in_format))

\* C8 as stated: on a template of literals and at least one named placeholder,
\* str_of_dict fails with a key validation error whenever the keys of d are not
\* exactly the names the template uses, a missing key and an extra key alike.
C8_FailsOnMissingOrExtraFields ==
    (/\ pc = "str_of_dict"
     /\ OnlyKinds(in_format, {"lit", "named"})
     /\ NamedSet(in_format) # {}) =>
        (DOMAIN in_d # NamedSet(in_format) => raised = "KeyValidationError")

\* C8: str_of_dict fails with a key validation error whenever a named
\* placeholder of the template has no key in d; on a template of literals and
\* named placeholders all of which are keys of d it returns the filled string,
\* the keys no placeholder uses being ignored.
C8_FailsOnMissingFields ==
    pc = "str_of_dict" =>
        /\ ~(NamedSet(in_format) \subseteq DOMAIN in_d) => raised = "KeyValidationError"
        /\ (/\ OnlyKinds(in_format, {"lit", "named"})
            /\ NamedSet(in_format) \subseteq DOMAIN in_d)
              => /\ raised = "none"
                 /\ Len(out_s) = Len(in_format)
                 /\ \A i \in 1..Len(in_format) :
                       out_s[i] = IF in_format[i].kind = "lit"
                                  THEN in_format[i].name
                                  ELSE str_(in_d[in_format[i].name])

\* C8 witness: the template named a field that a non-empty mapping does not
\* hold and the call raised the key validation error.
C8_Witness ==
    /\ pc = "str_of_dict"
    /\ raised = "KeyValidationError"
    /\ DOMAIN in_d # {}
    /\ OnlyKinds(in_format, {"lit", "named"})
    /\ ~(NamedSet(in_format) \subseteq DOMAIN in_d)

\* ------------------------------------------------- dsv_of_list, list_of_dsv
\* A string is the sequence of its characters.
Chars == {"a", "b"}
Strings == SeqsUpTo(Chars, MaxStrLen)

\* sep.join(d)
RECURSIVE join(_, _)
join(sep, d) ==
    IF d = <<>> THEN <<>>
    ELSE IF Len(d) = 1 THEN Head(d)
    ELSE Head(d) \o sep \o join(sep, Tail(d))

dsv_of_list(d, sep) == join(sep, d)

StartsWith(d, sep) ==
    /\ Len(d) >= Len(sep)
    /\ SubSeq(d, 1, Len(sep)) = sep

\* d.split(sep), sep not empty: d is cut at each occurrence of sep found
\* scanning from the left, the scan resuming after the occurrence; cur is the
\* component read so far.
RECURSIVE split(_, _, _)
split(d, sep, cur) ==
    IF d = <<>> THEN <<cur>>
    ELSE IF StartsWith(d, sep)
    THEN <<cur>> \o split(SubSeq(d, Len(sep) + 1, Len(d)), sep, <<>>)
    ELSE split(Tail(d), sep, Append(cur, Head(d)))

\* mutant: the empty string is split like any other, giving ['']
list_of_dsv_naive(d, sep) == split(d, sep, <<>>)

list_of_dsv(d, sep) ==
    IF d = <<>> THEN <<>> ELSE split(d, sep, <<>>)

\* dsv_line = dsv_of_list(words, sep)
Apply_dsv_of_list ==
    /\ pc = "start_words"
    /\ dsv_line' = dsv_of_list(words, separator)
    /\ pc' = "dsv_of_list"
    /\ UNCHANGED <<words, separator, dsv_words, store_vars,
                   raised, in_fields, in_t, in_d, in_format, out_t, out_d, out_s>>

\* dsv_words = list_of_dsv(dsv_line, sep)
Apply_list_of_dsv ==
    /\ pc = "dsv_of_list"
    /\ dsv_words' = list_of_dsv(dsv_line, separator)
    /\ pc' = "list_of_dsv(dsv_of_list)"
    /\ UNCHANGED <<words, separator, dsv_line, store_vars,
                   raised, in_fields, in_t, in_d, in_format, out_t, out_d, out_s>>

\* The inputs of the delimiter codecs: a list of words and a non-empty delimiter.
DsvInit ==
    /\ StoreIdle
    /\ words \in SeqsUpTo(Strings, MaxWords)
    /\ separator \in Strings \ {<<>>}
    /\ dsv_line = <<>> /\ dsv_words = <<>>
    /\ pc = "start_words" /\ raised = "none"
    /\ in_fields = <<>> /\ in_t = <<>> /\ in_d = <<>> /\ in_format = <<>>
    /\ out_t = <<>> /\ out_d = <<>> /\ out_s = <<>>

DsvNext ==
    \/ Apply_dsv_of_list
    \/ Apply_list_of_dsv

DsvSpec == DsvInit /\ [][DsvNext]_vars

\* ------------------------------------------------- claims on the delimiter codecs
CharsOf(str) == {str[i] : i \in 1..Len(str)}

\* No word has a character in common with the delimiter.
NoSharedChar(seq, sep) ==
    \A i \in 1..Len(seq) : CharsOf(seq[i]) \cap CharsOf(sep) = {}

\* C3 as stated: for any sequence of strings none of which equals the
\* delimiter, and any non-empty delimiter,
\* list_of_dsv(dsv_of_list(seq, sep), sep) = seq.
C3_RoundTripNoWordEqualsSep ==
    (/\ pc = "list_of_dsv(dsv_of_list)"
     /\ \A i \in 1..Len(words) : words[i] # separator)
        => dsv_words = words

\* C3: for any non-empty delimiter and any sequence of strings none of which
\* has a character in common with the delimiter, other than the sequence of
\* one empty string, list_of_dsv(dsv_of_list(seq, sep), sep) = seq; the empty
\* sequence joins to the empty string and the empty string splits to the empty
\* sequence.
C3_RoundTripDisjointChars ==
    /\ (/\ pc = "list_of_dsv(dsv_of_list)"
        /\ NoSharedChar(words, separator)
        /\ words # << <<>> >>)
          => dsv_words = words
    /\ (pc \in {"dsv_of_list", "list_of_dsv(dsv_of_list)"} /\ words = <<>>)
          => dsv_line = <<>>
    /\ (pc = "list_of_dsv(dsv_of_list)" /\ dsv_line = <<>>)
          => dsv_words = <<>>

\* C3 witness: two words, one of them empty, came back from a delimiter of two
\* characters.
C3_Witness ==
    /\ pc = "list_of_dsv(dsv_of_list)"
    /\ Len(words) = 2
    /\ words[1] = <<>>
    /\ words[2] # <<>>
    /\ Len(separator) = 2
    /\ NoSharedChar(words, separator)
    /\ dsv_words = words
====
